---- MODULE Spec2Model ----
(***************************************************************************)
(* A model of the thrift-parser crate: a recursive-descent parser for the  *)
(* Thrift IDL built from nom combinators.  Every parser is a function from *)
(* the remaining input to either (remaining input, value) or an error.     *)
(* Text is a TLA+ string; a parser result is a record                      *)
(*     [ok |-> TRUE,  rest |-> remaining input, val |-> value]   or        *)
(*     [ok |-> FALSE, rest |-> "", val |-> ""].                            *)
(* Option values are [none |-> TRUE] and [some |-> v]; enum variants are   *)
(* records whose single field name is the variant.                         *)
(***************************************************************************)
EXTENDS Integers, Sequences, FiniteSets, TLC

VARIABLES
    input,      \* the text handed to the parser under test
    gen,        \* how the text was put together (the AST it was rendered from)
    pc,         \* "start", "many0" (inside Document::parse's loop), "done"
    op,         \* the parser that was applied
    result,     \* the IResult the parser returned
    remains,    \* Document::parse: the input many0 has not consumed yet
    target      \* Document::parse: the Document being filled

vars == <<input, gen, pc, op, result, remains, target>>

----------------------------------------------------------------------------
(* nom's IResult and the std Option *)

Ok(rest, val) == [ok |-> TRUE, rest |-> rest, val |-> val]
Err == [ok |-> FALSE, rest |-> "", val |-> ""]
None == [none |-> TRUE]
Some(v) == [some |-> v]
IsSome(o) == DOMAIN o = {"some"}
Unit == "()"

\* <T as Parser>::parse(input), and the parsing functions that are not trait
\* methods, by name; defined with the Document parser below
RECURSIVE parse(_, _)

----------------------------------------------------------------------------
(* Characters and character classes *)

At(i, k) == SubSeq(i, k, k)
From(i, k) == SubSeq(i, k, Len(i))
Take(i, n) == SubSeq(i, 1, n)
Drop(i, n) == SubSeq(i, n + 1, Len(i))

Lower == {"a","b","c","d","e","f","g","h","i","j","k","l","m",
          "n","o","p","q","r","s","t","u","v","w","x","y","z"}
Upper == {"A","B","C","D","E","F","G","H","I","J","K","L","M",
          "N","O","P","Q","R","S","T","U","V","W","X","Y","Z"}
is_ascii_alphabetic(c) == c \in Lower \cup Upper
is_ascii_digit(c) == c \in {"0","1","2","3","4","5","6","7","8","9"}
is_ascii_alphanumeric(c) == is_ascii_alphabetic(c) \/ is_ascii_digit(c)
is_multispace(c) == c \in {" ", "\t", "\r", "\n"}

----------------------------------------------------------------------------
(* nom combinators, complete-input versions *)

\* tag(t): the input starts with t
tag(t, i) ==
    IF Len(i) >= Len(t) /\ Take(i, Len(t)) = t THEN Ok(Drop(i, Len(t)), t) ELSE Err

\* char(c)
cchar(c, i) == IF Len(i) >= 1 /\ At(i, 1) = c THEN Ok(Drop(i, 1), c) ELSE Err

\* opt(p): an error of p becomes None with nothing consumed
opt(r, i) == IF r.ok THEN Ok(r.rest, Some(r.val)) ELSE Ok(i, None)

\* the predicates the parsers hand to take_while and its kin, by name
Satisfies(pred, c) ==
    CASE pred = "digit" -> is_ascii_digit(c)
      [] pred = "multispace" -> is_multispace(c)
      [] pred = "identifier" -> is_ascii_alphanumeric(c) \/ c = "." \/ c = "_"

\* the number of leading characters of i that satisfy pred
RECURSIVE Span(_, _, _)
Span(pred, i, k) ==
    IF k <= Len(i) /\ Satisfies(pred, At(i, k)) THEN Span(pred, i, k + 1) ELSE k - 1

\* take_while(pred): zero or more
take_while(pred, i) ==
    LET n == Span(pred, i, 1) IN Ok(Drop(i, n), Take(i, n))

\* take_while1-style parsers (digit1, multispace1): one or more
take_while1(pred, i) ==
    LET n == Span(pred, i, 1) IN IF n = 0 THEN Err ELSE Ok(Drop(i, n), Take(i, n))

digit0(i) == take_while("digit", i)
digit1(i) == take_while1("digit", i)
multispace1(i) == take_while1("multispace", i)

\* the position of the first occurrence of t in i at or after k, 0 when absent
RECURSIVE Find(_, _, _)
Find(t, i, k) ==
    IF k + Len(t) - 1 > Len(i) THEN 0
    ELSE IF SubSeq(i, k, k + Len(t) - 1) = t THEN k
    ELSE Find(t, i, k + 1)

\* take_until(t): everything before the first t; an error when t does not occur
take_until(t, i) ==
    LET k == Find(t, i, 1) IN IF k = 0 THEN Err ELSE Ok(From(i, k), Take(i, k - 1))

\* take_till(c == t): everything before the first t, the whole input when absent
take_till(t, i) ==
    LET k == Find(t, i, 1) IN IF k = 0 THEN Ok("", i) ELSE Ok(From(i, k), Take(i, k - 1))

\* recognize(p): the consumed text is the value
recognize(r, i) == IF r.ok THEN Ok(r.rest, Take(i, Len(i) - Len(r.rest))) ELSE Err

----------------------------------------------------------------------------
(* basic.rs *)

\* a quoted text that runs to the last q of the input instead of the first
QuotedToLast(q, i) ==
    LET a == cchar(q, i) IN
    IF ~a.ok THEN Err ELSE
    LET ks == {k \in 1..Len(a.rest) : At(a.rest, k) = q} IN
    IF ks = {} THEN Err ELSE
    LET k == CHOOSE m \in ks : \A n \in ks : n <= m IN
    Ok(Drop(a.rest, k), Take(a.rest, k - 1))

\* delimited(char(q), take_until(q), char(q))
Quoted(q, i) ==
    LET a == cchar(q, i) IN
    IF ~a.ok THEN Err ELSE
    LET b == take_until(q, a.rest) IN
    IF ~b.ok THEN Err ELSE
    LET c == cchar(q, b.rest) IN
    IF ~c.ok THEN Err ELSE Ok(c.rest, b.val)

LiteralParse(i) ==
    LET dq == Quoted("\"", i) IN
    IF dq.ok THEN dq ELSE Quoted("'", i)

\* the grammar of the comment, ( Letter | '_' ) ( Letter | Digit | '.' | '_' )*,
\* which lets '_' stand alone as the first character
IdentifierParseLoose(i) ==
    IF Len(i) >= 1 /\ (is_ascii_alphabetic(At(i, 1)) \/ At(i, 1) = "_")
    THEN recognize(take_while("identifier", Drop(i, 1)), i)
    ELSE Err

IdentifierParse(i) ==
    LET u == opt(cchar("_", i), i)
        l == IF Len(u.rest) >= 1 /\ is_ascii_alphabetic(At(u.rest, 1))
             THEN Ok(Drop(u.rest, 1), At(u.rest, 1)) ELSE Err
    IN  IF ~l.ok THEN Err
        ELSE recognize(take_while("identifier", l.rest), i)

ListSeparatorParse(i) ==
    IF Len(i) >= 1 /\ At(i, 1) \in {",", ";"} THEN Ok(Drop(i, 1), Unit) ELSE Err

\* a block comment that runs to the last "*/" of the input
CommentParseGreedy(i) ==
    LET s == tag("//", i)
        h == cchar("#", i)
        b == tag("/*", i)
    IN  IF s.ok THEN take_till("\n", s.rest)
        ELSE IF h.ok THEN take_till("\n", h.rest)
        ELSE IF ~b.ok THEN Err
        ELSE LET ks == {k \in 1..(Len(b.rest) - 1) : SubSeq(b.rest, k, k + 1) = "*/"} IN
             IF ks = {} THEN Err
             ELSE LET k == CHOOSE m \in ks : \A n \in ks : n <= m IN
                  Ok(Drop(b.rest, k + 1), Take(b.rest, k - 1))

CommentParse(i) ==
    LET s == tag("//", i)
        h == cchar("#", i)
        b == tag("/*", i)
    IN  IF s.ok THEN take_till("\n", s.rest)
        ELSE IF h.ok THEN take_till("\n", h.rest)
        ELSE IF ~b.ok THEN Err
        ELSE LET u == take_until("*/", b.rest) IN
             IF ~u.ok THEN Err
             ELSE LET e == tag("*/", u.rest) IN
                  IF e.ok THEN Ok(e.rest, u.val) ELSE Err

\* alt((Comment::parse, multispace1)) with the value dropped
SeparatorItem(i) ==
    LET c == parse("Comment", i) IN
    IF c.ok THEN Ok(c.rest, Unit)
    ELSE LET w == multispace1(i) IN IF w.ok THEN Ok(w.rest, Unit) ELSE Err

\* many1's loop after the first item: stop at the first error; an item that
\* consumed nothing is an error of many1
RECURSIVE Many1Rest(_)
Many1Rest(i) ==
    LET r == SeparatorItem(i) IN
    IF ~r.ok THEN Ok(i, Unit)
    ELSE IF Len(r.rest) = Len(i) THEN Err
    ELSE Many1Rest(r.rest)

\* a Separator built with many0: no first item is required
SeparatorParseMany0(i) == Many1Rest(i)

SeparatorParse(i) ==
    LET r == SeparatorItem(i) IN
    IF ~r.ok THEN Err ELSE Many1Rest(r.rest)

OptSeparator(i) == opt(parse("Separator", i), i)

----------------------------------------------------------------------------
(* nom::multi::separated_list0(sep, f) *)

\* the loop after the first element: a failing separator ends the list; a
\* separator that consumed nothing is an error; a failing element ends the
\* list in front of the separator that preceded it
RECURSIVE SeparatedLoop(_, _, _, _)
SeparatedLoop(SepP, F, i, res) ==
    LET s == parse(SepP, i) IN
    IF ~s.ok THEN Ok(i, res)
    ELSE IF Len(s.rest) = Len(i) THEN Err
    ELSE LET e == parse(F, s.rest) IN
         IF ~e.ok THEN Ok(i, res)
         ELSE SeparatedLoop(SepP, F, e.rest, Append(res, e.val))

separated_list0(SepP, F, i) ==
    LET e == parse(F, i) IN
    IF ~e.ok THEN Ok(i, <<>>) ELSE SeparatedLoop(SepP, F, e.rest, <<e.val>>)

----------------------------------------------------------------------------
(* constant.rs *)

DigitVal(c) ==
    CASE c = "0" -> 0 [] c = "1" -> 1 [] c = "2" -> 2 [] c = "3" -> 3 [] c = "4" -> 4
      [] c = "5" -> 5 [] c = "6" -> 6 [] c = "7" -> 7 [] c = "8" -> 8 [] c = "9" -> 9

\* An i64 is a sign and a magnitude; the magnitude is kept as its decimal
\* digits without leading zeros ("0" for zero), 2^63 being beyond the
\* 32-bit integers TLC computes with.
I64(neg, mag) == [neg |-> neg /\ mag # "0", mag |-> mag]
I64MaxMag == "9223372036854775807"    \* i64::MAX
I64MinMag == "9223372036854775808"    \* -i64::MIN

\* a > b for magnitudes of the same length
RECURSIVE LexGreater(_, _)
LexGreater(a, b) ==
    IF Len(a) = 0 THEN FALSE
    ELSE IF DigitVal(Head(a)) # DigitVal(Head(b)) THEN DigitVal(Head(a)) > DigitVal(Head(b))
    ELSE LexGreater(Tail(a), Tail(b))

MagGreater(a, b) == Len(a) > Len(b) \/ (Len(a) = Len(b) /\ LexGreater(a, b))

\* acc * 10 + d on magnitudes
MulAdd(mag, d) == IF mag = "0" THEN d ELSE mag \o d

\* a digit loop that clamps to the nearest end of i64 instead of failing
RECURSIVE FromStrLoopSaturating(_, _, _)
FromStrLoopSaturating(neg, mag, digits) ==
    IF Len(digits) = 0 THEN Some(I64(neg, mag))
    ELSE IF ~is_ascii_digit(Head(digits)) THEN None
    ELSE LET m == MulAdd(mag, Head(digits)) IN
         IF MagGreater(m, IF neg THEN I64MinMag ELSE I64MaxMag)
         THEN Some(I64(neg, IF neg THEN I64MinMag ELSE I64MaxMag))
         ELSE FromStrLoopSaturating(neg, m, Tail(digits))

\* i64::from_str's digit loop: checked_mul(10) then checked_add / checked_sub
\* of the digit; None as soon as the value leaves the range of i64
RECURSIVE FromStrLoop(_, _, _)
FromStrLoop(neg, mag, digits) ==
    IF Len(digits) = 0 THEN Some(I64(neg, mag))
    ELSE IF ~is_ascii_digit(Head(digits)) THEN None
    ELSE LET m == MulAdd(mag, Head(digits)) IN
         IF MagGreater(m, IF neg THEN I64MinMag ELSE I64MaxMag) THEN None
         ELSE FromStrLoop(neg, m, Tail(digits))

\* <i64 as FromStr>::from_str
I64FromStr(s) ==
    IF Len(s) = 0 THEN None
    ELSE IF s \in {"+", "-"} THEN None
    ELSE IF Head(s) = "-" THEN FromStrLoop(TRUE, "0", Tail(s))
    ELSE IF Head(s) = "+" THEN FromStrLoop(FALSE, "0", Tail(s))
    ELSE FromStrLoop(FALSE, "0", s)

\* opt(alt((char('-'), char('+'))))
OptSign(i) ==
    LET m == cchar("-", i) IN
    IF m.ok THEN opt(m, i) ELSE opt(cchar("+", i), i)

\* map_res(f, g): an Err of the conversion is an error of the parser
map_res(r, conv) ==
    IF ~r.ok THEN Err ELSE IF IsSome(conv) THEN Ok(r.rest, conv.some) ELSE Err

IntConstantRecognize(i) ==
    LET s == OptSign(i)
        d == digit1(s.rest)
    IN  recognize(d, i)

IntConstantParse(i) ==
    LET r == IntConstantRecognize(i) IN
    map_res(r, IF r.ok THEN I64FromStr(r.val) ELSE None)

\* the text with its leading / trailing zeros removed
RECURSIVE StripLeadingZeros(_)
StripLeadingZeros(s) ==
    IF Len(s) > 0 /\ Head(s) = "0" THEN StripLeadingZeros(Tail(s)) ELSE s
RECURSIVE StripTrailingZeros(_)
StripTrailingZeros(s) ==
    IF Len(s) > 0 /\ At(s, Len(s)) = "0" THEN StripTrailingZeros(Take(s, Len(s) - 1)) ELSE s

RECURSIVE ToNat(_)
ToNat(s) == IF Len(s) = 0 THEN 0 ELSE ToNat(Take(s, Len(s) - 1)) * 10 + DigitVal(At(s, Len(s)))

\* An f64 is modelled as the exact decimal  (-1)^neg * 0.digits * 10^exp10
\* with digits free of leading and trailing zeros ("" for zero), or as an
\* infinity; the range of f64 is kept (about 1e-324 .. 1.8e308), its rounding
\* of the mantissa to 53 bits is not.
F64Zero == [neg |-> FALSE, digits |-> "", exp10 |-> 0, inf |-> FALSE]
F64Inf(neg) == [neg |-> neg, digits |-> "", exp10 |-> 0, inf |-> TRUE]

\* 0.sig * 10^x, within the range of f64: beyond 10^309 it is an infinity,
\* below 10^-323 it is zero
F64Ranged(neg, sig, x) ==
    IF x > 309 THEN F64Inf(neg)
    ELSE IF x < -323 THEN F64Zero
    ELSE [neg |-> neg, digits |-> sig, exp10 |-> x, inf |-> FALSE]

\* 0.lead * 10^point * 10^(+-e), lead and e without leading zeros
F64Scaled(neg, lead, point, eneg, e) ==
    IF StripTrailingZeros(lead) = "" THEN F64Zero
    ELSE IF Len(e) > 4 THEN (IF eneg THEN F64Zero ELSE F64Inf(neg))
    ELSE F64Ranged(neg, StripTrailingZeros(lead),
                   point + (IF eneg THEN 0 - ToNat(e) ELSE ToNat(e)))

\* the value of  int.frac * 10^(+-emag)
F64(neg, int, frac, eneg, emag) ==
    F64Scaled(neg, StripLeadingZeros(int \o frac),
              Len(StripLeadingZeros(int \o frac)) - Len(frac), eneg, StripLeadingZeros(emag))

\* <f64 as FromStr>::from_str, the exponent: nothing, or [eE] sign? digit+
F64ExponentDigits(es) ==
    IF digit1(es.rest).ok /\ digit1(es.rest).rest = ""
    THEN Some([neg |-> IsSome(es.val) /\ es.val.some = "-", mag |-> digit1(es.rest).val])
    ELSE None

F64Exponent(t) ==
    IF t = "" THEN Some([neg |-> FALSE, mag |-> "0"])
    ELSE IF At(t, 1) \notin {"e", "E"} THEN None
    ELSE F64ExponentDigits(OptSign(Drop(t, 1)))

\* a mantissa without a digit is an Err
F64Mantissa(neg, int, frac, ex) ==
    IF int = "" /\ frac = "" THEN None
    ELSE IF ~IsSome(ex) THEN None
    ELSE Some(F64(neg, int, frac, ex.some.neg, ex.some.mag))

F64Fraction(neg, int, fd) == F64Mantissa(neg, int, fd.val, F64Exponent(fd.rest))

F64Integer(neg, int) ==
    IF cchar(".", int.rest).ok
    THEN F64Fraction(neg, int.val, digit0(Drop(int.rest, 1)))
    ELSE F64Mantissa(neg, int.val, "", F64Exponent(int.rest))

F64Signed(sg) == F64Integer(IsSome(sg.val) /\ sg.val.some = "-", digit0(sg.rest))

\* <f64 as FromStr>::from_str on a text of the shape
\* sign? digit* ('.' digit*)? ([eE] sign? digit+)?; any other text is an Err
F64FromStr(s) == F64Signed(OptSign(s))

\* opt(pair(char('.'), digit1))
OptFraction(i) ==
    IF cchar(".", i).ok /\ digit1(Drop(i, 1)).ok
    THEN Ok(digit1(Drop(i, 1)).rest, Some(digit1(Drop(i, 1)).val))
    ELSE Ok(i, None)

\* opt(pair(alt((char('E'), char('e'))), IntConstant::parse))
OptExponent(i) ==
    IF (cchar("E", i).ok \/ cchar("e", i).ok) /\ parse("IntConstant", Drop(i, 1)).ok
    THEN Ok(parse("IntConstant", Drop(i, 1)).rest, Some(parse("IntConstant", Drop(i, 1)).val))
    ELSE Ok(i, None)

\* recognize(tuple((opt(sign), digit0, opt(pair(char('.'), digit1)),
\*                  opt(pair(alt((char('E'), char('e'))), IntConstant::parse)))))
DoubleRecognize(i) ==
    recognize(OptExponent(OptFraction(digit0(OptSign(i).rest).rest).rest), i)

DoubleConstantParse(i) ==
    LET r == DoubleRecognize(i) IN
    map_res(r, IF r.ok THEN F64FromStr(r.val) ELSE None)

Contains(s, c) == Find(c, s, 1) # 0

\* Double except int: a text without '.', 'e' and 'E' is an error
DoubleConstantParse2(i) ==
    LET r == DoubleRecognize(i) IN
    map_res(r, IF ~r.ok THEN None
               ELSE IF ~Contains(r.val, ".") /\ ~Contains(r.val, "e") /\ ~Contains(r.val, "E")
                    THEN None
               ELSE F64FromStr(r.val))

\* a list separator that demands the comma or semicolon
parse_list_separator_strict(i) ==
    LET l == parse("ListSeparator", OptSeparator(i).rest) IN
    IF ~l.ok THEN Err ELSE Ok(OptSeparator(l.rest).rest, Unit)

\* At least one Separator or ListSeparator
parse_list_separator(i) ==
    LET s == parse("Separator", i) IN
    IF s.ok
    THEN LET l == opt(parse("ListSeparator", s.rest), s.rest)
             t == OptSeparator(l.rest)
         IN  Ok(t.rest, Unit)
    ELSE LET l == parse("ListSeparator", i) IN
         IF ~l.ok THEN Err
         ELSE Ok(OptSeparator(l.rest).rest, Unit)


\* delimited(pair(char(open), opt(Separator)), separated_list0(parse_list_separator, F),
\*           pair(opt(Separator), char(close)))
Bracketed(open, F, close, i) ==
    LET a == cchar(open, i) IN
    IF ~a.ok THEN Err ELSE
    LET l == separated_list0("parse_list_separator", F, OptSeparator(a.rest).rest) IN
    IF ~l.ok THEN Err ELSE
    LET c == cchar(close, OptSeparator(l.rest).rest) IN
    IF ~c.ok THEN Err ELSE Ok(c.rest, l.val)

ConstListParse(i) == Bracketed("[", "ConstValue", "]", i)

\* separated_pair(ConstValue, delimited(opt(Separator), char(':'), opt(Separator)), ConstValue)
ConstMapPair(i) ==
    LET k == parse("ConstValue", i) IN
    IF ~k.ok THEN Err ELSE
    LET c == cchar(":", OptSeparator(k.rest).rest) IN
    IF ~c.ok THEN Err ELSE
    LET v == parse("ConstValue", OptSeparator(c.rest).rest) IN
    IF ~v.ok THEN Err ELSE Ok(v.rest, <<k.val, v.val>>)

ConstMapParse(i) == Bracketed("{", "ConstMapPair", "}", i)

ConstValueParse(i) ==
    LET id == parse("Identifier", i)
        lit == parse("Literal", i)
        dbl == parse("parse2", i)
        int == parse("IntConstant", i)
        lst == parse("ConstList", i)
        mp == parse("ConstMap", i)
    IN  IF id.ok THEN Ok(id.rest, [Identifier |-> id.val])
        ELSE IF lit.ok THEN Ok(lit.rest, [Literal |-> lit.val])
        ELSE IF dbl.ok THEN Ok(dbl.rest, [Double |-> dbl.val])
        ELSE IF int.ok THEN Ok(int.rest, [Int |-> int.val])
        ELSE IF lst.ok THEN Ok(lst.rest, [List |-> lst.val])
        ELSE IF mp.ok THEN Ok(mp.rest, [Map |-> mp.val])
        ELSE Err

----------------------------------------------------------------------------
(* types.rs *)

BaseTypes == <<"bool", "byte", "i8", "i16", "i32", "i64", "double", "string", "binary">>
BaseVariant(kw) ==
    CASE kw = "bool" -> "Bool" [] kw = "byte" -> "Byte" [] kw = "i8" -> "I8"
      [] kw = "i16" -> "I16" [] kw = "i32" -> "I32" [] kw = "i64" -> "I64"
      [] kw = "double" -> "Double" [] kw = "string" -> "String" [] kw = "binary" -> "Binary"

\* alt over a sequence of tags: the first tag the input starts with
RECURSIVE AltTags(_, _, _)
AltTags(tags, k, i) ==
    IF k > Len(tags) THEN Err
    ELSE IF tag(tags[k], i).ok THEN tag(tags[k], i)
    ELSE AltTags(tags, k + 1, i)

parse_base_type(i) ==
    LET r == AltTags(BaseTypes, 1, i) IN
    IF r.ok THEN Ok(r.rest, [Base |-> BaseVariant(r.val)]) ELSE Err

\* an annotation that is the keyword alone, its literal left in the input
CppTypeKeywordOnly(i) == tag("cpp_type", i)

\* preceded(tag("cpp_type"), preceded(Separator::parse, Literal::parse))
CppTypeParse(i) ==
    LET t == tag("cpp_type", i) IN
    IF ~t.ok THEN Err ELSE
    LET s == parse("Separator", t.rest) IN
    IF ~s.ok THEN Err ELSE parse("Literal", s.rest)


\* angle brackets that hold a base type only: no nesting
AngleFlat(F, i) ==
    LET a == cchar("<", i) IN
    IF ~a.ok THEN Err ELSE
    LET v == parse("parse_base_type", OptSeparator(a.rest).rest) IN
    IF ~v.ok THEN Err ELSE
    LET c == cchar(">", OptSeparator(v.rest).rest) IN
    IF ~c.ok THEN Err ELSE Ok(c.rest, v.val)

\* delimited(pair(char('<'), opt(Separator)), F, pair(opt(Separator), char('>')))
Angle(F, i) ==
    LET a == cchar("<", i) IN
    IF ~a.ok THEN Err ELSE
    LET v == parse(F, OptSeparator(a.rest).rest) IN
    IF ~v.ok THEN Err ELSE
    LET c == cchar(">", OptSeparator(v.rest).rest) IN
    IF ~c.ok THEN Err ELSE Ok(c.rest, v.val)

\* separated_pair(FieldType, tuple((opt(Separator), char(','), opt(Separator))), FieldType)
KeyValueTypes(i) ==
    LET k == parse("FieldType", i) IN
    IF ~k.ok THEN Err ELSE
    LET c == cchar(",", OptSeparator(k.rest).rest) IN
    IF ~c.ok THEN Err ELSE
    LET v == parse("FieldType", OptSeparator(c.rest).rest) IN
    IF ~v.ok THEN Err ELSE Ok(v.rest, <<k.val, v.val>>)

\* tuple((tag(kw), opt(Separator), opt(terminated(CppType::parse, opt(Separator)))))
ContainerHead(kw, i) ==
    LET t == tag(kw, i) IN
    IF ~t.ok THEN Err ELSE
    LET s == OptSeparator(t.rest)
        c == parse("CppType", s.rest)
    IN  IF c.ok THEN Ok(OptSeparator(c.rest).rest, Unit) ELSE Ok(s.rest, Unit)

MapTypeParse(i) ==
    LET h == ContainerHead("map", i) IN
    IF ~h.ok THEN Err ELSE
    LET kv == Angle("KeyValueTypes", h.rest) IN
    IF ~kv.ok THEN Err ELSE Ok(kv.rest, [MapK |-> kv.val[1], MapV |-> kv.val[2]])

SetTypeParse(i) ==
    LET h == ContainerHead("set", i) IN
    IF ~h.ok THEN Err ELSE
    LET v == Angle("FieldType", h.rest) IN
    IF ~v.ok THEN Err ELSE Ok(v.rest, [Set |-> v.val])

\* a list type whose optional cpp_type part keeps the separator it read when
\* no annotation follows
ListTypeParseNoBacktrack(i) ==
    LET t == tag("list", i) IN
    IF ~t.ok THEN Err ELSE
    LET v == Angle("FieldType", OptSeparator(t.rest).rest) IN
    IF ~v.ok THEN Err ELSE
    LET s == OptSeparator(v.rest)
        c == parse("CppType", s.rest)
    IN  IF c.ok THEN Ok(c.rest, [List |-> v.val]) ELSE Ok(s.rest, [List |-> v.val])

ListTypeParse(i) ==
    LET t == tag("list", i) IN
    IF ~t.ok THEN Err ELSE
    LET v == Angle("FieldType", OptSeparator(t.rest).rest) IN
    IF ~v.ok THEN Err ELSE
    LET c == parse("CppType", OptSeparator(v.rest).rest) IN
    IF c.ok THEN Ok(c.rest, [List |-> v.val]) ELSE Ok(v.rest, [List |-> v.val])

parse_identifier_type(i) ==
    LET r == parse("Identifier", i) IN
    IF r.ok THEN Ok(r.rest, [Identifier |-> r.val]) ELSE Err

parse_container_type(i) ==
    LET m == parse("MapType", i)
        s == parse("SetType", i)
        l == parse("ListType", i)
    IN  IF m.ok THEN m
        ELSE IF s.ok THEN s
        ELSE IF l.ok THEN l
        ELSE parse("parse_identifier_type", i)

FieldTypeParse(i) ==
    LET b == parse("parse_base_type", i)
        c == parse("parse_container_type", i)
    IN  IF b.ok THEN b
        ELSE IF c.ok THEN c
        ELSE parse("parse_identifier_type", i)

----------------------------------------------------------------------------
(* field.rs *)

\* opt(terminated(IntConstant::parse,
\*                delimited(opt(Separator), char(':'), opt(Separator))))
FieldId(i) ==
    LET n == parse("IntConstant", i) IN
    IF ~n.ok THEN Ok(i, None) ELSE
    LET c == cchar(":", OptSeparator(n.rest).rest) IN
    IF ~c.ok THEN Ok(i, None) ELSE Ok(OptSeparator(c.rest).rest, Some(n.val))

\* a requiredness that reads a missing keyword as 'optional'
FieldReqDefaulted(i) ==
    LET r == tag("required", i)
        s == IF r.ok THEN parse("Separator", r.rest) ELSE Err
        o == tag("optional", i)
        t == IF o.ok THEN parse("Separator", o.rest) ELSE Err
    IN  IF s.ok THEN Ok(s.rest, Some(TRUE))
        ELSE IF t.ok THEN Ok(t.rest, Some(FALSE))
        ELSE Ok(i, Some(FALSE))

\* opt(terminated(alt((tag("required") -> true, tag("optional") -> false)), Separator))
FieldReq(i) ==
    LET r == tag("required", i)
        o == tag("optional", i)
        k == IF r.ok THEN Ok(r.rest, TRUE) ELSE IF o.ok THEN Ok(o.rest, FALSE) ELSE Err
    IN  IF ~k.ok THEN Ok(i, None) ELSE
        LET s == parse("Separator", k.rest) IN
        IF ~s.ok THEN Ok(i, None) ELSE Ok(s.rest, Some(k.val))

\* opt(map(tuple((char('='), opt(Separator), ConstValue::parse)), cv))
FieldDefault(i) ==
    LET e == cchar("=", i) IN
    IF ~e.ok THEN Ok(i, None) ELSE
    LET v == parse("ConstValue", OptSeparator(e.rest).rest) IN
    IF ~v.ok THEN Ok(i, None) ELSE Ok(v.rest, Some(v.val))

FieldParse(i) ==
    LET id == FieldId(i)
        req == FieldReq(id.rest)
        ty == parse("FieldType", req.rest)
    IN  IF ~ty.ok THEN Err ELSE
        LET s1 == parse("Separator", ty.rest) IN
        IF ~s1.ok THEN Err ELSE
        LET nm == parse("Identifier", s1.rest) IN
        IF ~nm.ok THEN Err ELSE
        LET df == FieldDefault(OptSeparator(nm.rest).rest)
            s2 == OptSeparator(df.rest)
            ls == opt(parse("ListSeparator", s2.rest), s2.rest)
        IN  Ok(ls.rest, [id |-> id.val, required |-> req.val, type_ |-> ty.val,
                         name |-> nm.val, default |-> df.val])

----------------------------------------------------------------------------
(* functions.rs *)

\* delimited(char('('), separated_list0(Separator::parse, Field::parse), char(')'))
FieldList(i) ==
    LET a == cchar("(", i) IN
    IF ~a.ok THEN Err ELSE
    LET l == separated_list0("Separator", "Field", a.rest) IN
    IF ~l.ok THEN Err ELSE
    LET c == cchar(")", l.rest) IN
    IF ~c.ok THEN Err ELSE Ok(c.rest, l.val)

\* a throws clause whose empty list counts as no clause
ThrowsNonEmpty(i) ==
    LET t == tag("throws", i) IN
    IF ~t.ok THEN Ok(i, None) ELSE
    LET s == parse("Separator", t.rest) IN
    IF ~s.ok THEN Ok(i, None) ELSE
    LET l == FieldList(s.rest) IN
    IF ~l.ok THEN Ok(i, None)
    ELSE IF l.val = <<>> THEN Ok(l.rest, None) ELSE Ok(l.rest, Some(l.val))

\* opt(preceded(pair(tag("throws"), Separator::parse), FieldList))
Throws(i) ==
    LET t == tag("throws", i) IN
    IF ~t.ok THEN Ok(i, None) ELSE
    LET s == parse("Separator", t.rest) IN
    IF ~s.ok THEN Ok(i, None) ELSE
    LET l == FieldList(s.rest) IN
    IF ~l.ok THEN Ok(i, None) ELSE Ok(l.rest, Some(l.val))

\* opt(pair(opt(Separator::parse), ListSeparator::parse))
OptTrailingListSeparator(i) ==
    LET l == parse("ListSeparator", OptSeparator(i).rest) IN
    IF l.ok THEN Ok(l.rest, Unit) ELSE Ok(i, Unit)

\* map(opt(terminated(tag("oneway"), Separator::parse)), |x| x.is_some())
Oneway(i) ==
    LET t == tag("oneway", i) IN
    IF ~t.ok THEN Ok(i, FALSE) ELSE
    LET s == parse("Separator", t.rest) IN
    IF ~s.ok THEN Ok(i, FALSE) ELSE Ok(s.rest, TRUE)

\* alt((map(tag("void"), |_| None), map(FieldType::parse, Some)))
FunctionType(i) ==
    LET v == tag("void", i) IN
    IF v.ok THEN Ok(v.rest, None) ELSE
    LET t == parse("FieldType", i) IN
    IF t.ok THEN Ok(t.rest, Some(t.val)) ELSE Err

FunctionParse(i) ==
    LET ow == Oneway(i)
        rt == FunctionType(ow.rest)
    IN  IF ~rt.ok THEN Err ELSE
        LET s1 == parse("Separator", rt.rest) IN
        IF ~s1.ok THEN Err ELSE
        LET nm == parse("Identifier", s1.rest) IN
        IF ~nm.ok THEN Err ELSE
        LET ps == FieldList(OptSeparator(nm.rest).rest) IN
        IF ~ps.ok THEN Err ELSE
        LET th == Throws(OptSeparator(ps.rest).rest)
            tl == OptTrailingListSeparator(th.rest)
        IN  Ok(tl.rest, [oneway |-> ow.val, returns |-> rt.val, name |-> nm.val,
                         parameters |-> ps.val, exceptions |-> th.val])

----------------------------------------------------------------------------
(* header.rs *)

\* preceded(pair(tag(kw), Separator::parse), Literal::parse)
KeywordLiteral(kw, i) ==
    LET t == tag(kw, i) IN
    IF ~t.ok THEN Err ELSE
    LET s == parse("Separator", t.rest) IN
    IF ~s.ok THEN Err ELSE parse("Literal", s.rest)

IncludeParse(i) == KeywordLiteral("include", i)
CppIncludeParse(i) == KeywordLiteral("cpp_include", i)

NamespaceScopes ==
    <<"*", "c_glib", "rust", "cpp", "delphi", "haxe", "go", "java", "js", "lua",
      "netstd", "perl", "php", "py", "py.twisted", "rb", "st", "xsd">>

NamespaceScopeParse(i) == AltTags(NamespaceScopes, 1, i)

NamespaceParse(i) ==
    LET t == tag("namespace", i) IN
    IF ~t.ok THEN Err ELSE
    LET s1 == parse("Separator", t.rest) IN
    IF ~s1.ok THEN Err ELSE
    LET sc == parse("NamespaceScope", s1.rest) IN
    IF ~sc.ok THEN Err ELSE
    LET s2 == parse("Separator", sc.rest) IN
    IF ~s2.ok THEN Err ELSE
    LET nm == parse("Identifier", s2.rest) IN
    IF ~nm.ok THEN Err ELSE Ok(nm.rest, [scope |-> sc.val, name |-> nm.val])

----------------------------------------------------------------------------
(* definition.rs *)

ConstParse(i) ==
    LET t == tag("const", i) IN
    IF ~t.ok THEN Err ELSE
    LET s1 == parse("Separator", t.rest) IN
    IF ~s1.ok THEN Err ELSE
    LET ty == parse("FieldType", s1.rest) IN
    IF ~ty.ok THEN Err ELSE
    LET s2 == parse("Separator", ty.rest) IN
    IF ~s2.ok THEN Err ELSE
    LET nm == parse("Identifier", s2.rest) IN
    IF ~nm.ok THEN Err ELSE
    LET eq == cchar("=", OptSeparator(nm.rest).rest) IN
    IF ~eq.ok THEN Err ELSE
    LET v == parse("ConstValue", OptSeparator(eq.rest).rest) IN
    IF ~v.ok THEN Err ELSE
    Ok(OptTrailingListSeparator(v.rest).rest,
       [name |-> nm.val, type_ |-> ty.val, value |-> v.val])

\* alt((FieldType::parse_base_type, FieldType::parse_container_type))
DefinitionType(i) ==
    LET b == parse("parse_base_type", i) IN
    IF b.ok THEN b ELSE parse("parse_container_type", i)

TypedefParse(i) ==
    LET t == tag("typedef", i) IN
    IF ~t.ok THEN Err ELSE
    LET s1 == parse("Separator", t.rest) IN
    IF ~s1.ok THEN Err ELSE
    LET old == DefinitionType(s1.rest) IN
    IF ~old.ok THEN Err ELSE
    LET s2 == parse("Separator", old.rest) IN
    IF ~s2.ok THEN Err ELSE
    LET al == parse("Identifier", s2.rest) IN
    IF ~al.ok THEN Err ELSE Ok(al.rest, [old |-> old.val, alias |-> al.val])

EnumValueParse(i) ==
    LET nm == parse("Identifier", i) IN
    IF ~nm.ok THEN Err ELSE
    LET eq == cchar("=", OptSeparator(nm.rest).rest)
        n == IF eq.ok THEN parse("IntConstant", OptSeparator(eq.rest).rest) ELSE Err
    IN  IF n.ok THEN Ok(n.rest, [name |-> nm.val, value |-> Some(n.val)])
        ELSE Ok(nm.rest, [name |-> nm.val, value |-> None])

EnumParse(i) ==
    LET t == tag("enum", i) IN
    IF ~t.ok THEN Err ELSE
    LET s1 == parse("Separator", t.rest) IN
    IF ~s1.ok THEN Err ELSE
    LET nm == parse("Identifier", s1.rest) IN
    IF ~nm.ok THEN Err ELSE
    LET b == cchar("{", OptSeparator(nm.rest).rest) IN
    IF ~b.ok THEN Err ELSE
    LET l == separated_list0("parse_list_separator", "EnumValue", OptSeparator(b.rest).rest) IN
    IF ~l.ok THEN Err ELSE
    LET c == cchar("}", OptSeparator(l.rest).rest) IN
    IF ~c.ok THEN Err ELSE Ok(c.rest, [name |-> nm.val, children |-> l.val])

\* the common body of Struct::parse, Union::parse and Exception::parse
FieldsDefinition(kw, i) ==
    LET t == tag(kw, i) IN
    IF ~t.ok THEN Err ELSE
    LET s1 == parse("Separator", t.rest) IN
    IF ~s1.ok THEN Err ELSE
    LET nm == parse("Identifier", s1.rest) IN
    IF ~nm.ok THEN Err ELSE
    LET b == cchar("{", OptSeparator(nm.rest).rest) IN
    IF ~b.ok THEN Err ELSE
    LET l == separated_list0("Separator", "Field", OptSeparator(b.rest).rest) IN
    IF ~l.ok THEN Err ELSE
    LET c == cchar("}", OptSeparator(l.rest).rest) IN
    IF ~c.ok THEN Err ELSE Ok(c.rest, [name |-> nm.val, fields |-> l.val])

StructParse(i) == FieldsDefinition("struct", i)
UnionParse(i) == FieldsDefinition("union", i)
ExceptionParse(i) == FieldsDefinition("exception", i)

\* opt(map(tuple((tag("extends"), Separator, Identifier, opt(Separator))), ext))
Extends(i) ==
    LET t == tag("extends", i) IN
    IF ~t.ok THEN Ok(i, None) ELSE
    LET s == parse("Separator", t.rest) IN
    IF ~s.ok THEN Ok(i, None) ELSE
    LET e == parse("Identifier", s.rest) IN
    IF ~e.ok THEN Ok(i, None) ELSE Ok(OptSeparator(e.rest).rest, Some(e.val))

ServiceParse(i) ==
    LET t == tag("service", i) IN
    IF ~t.ok THEN Err ELSE
    LET s1 == parse("Separator", t.rest) IN
    IF ~s1.ok THEN Err ELSE
    LET nm == parse("Identifier", s1.rest) IN
    IF ~nm.ok THEN Err ELSE
    LET ex == Extends(OptSeparator(nm.rest).rest)
        b == cchar("{", ex.rest)
    IN  IF ~b.ok THEN Err ELSE
        LET l == separated_list0("Separator", "Function", OptSeparator(b.rest).rest) IN
        IF ~l.ok THEN Err ELSE
        LET c == cchar("}", OptSeparator(l.rest).rest) IN
        IF ~c.ok THEN Err ELSE
        Ok(c.rest, [name |-> nm.val, extension |-> ex.val, functions |-> l.val])

----------------------------------------------------------------------------
(* document.rs *)

Categories ==
    <<"includes", "cpp_includes", "namespaces", "typedefs", "consts",
      "enums", "structs", "unions", "exceptions", "services">>

\* Document::default()
DocumentDefault ==
    [includes |-> <<>>, cpp_includes |-> <<>>, namespaces |-> <<>>, typedefs |-> <<>>,
     consts |-> <<>>, enums |-> <<>>, structs |-> <<>>, unions |-> <<>>,
     exceptions |-> <<>>, services |-> <<>>]

TopLevel(cat, i) ==
    CASE cat = "includes" -> parse("Include", i)
      [] cat = "cpp_includes" -> parse("CppInclude", i)
      [] cat = "namespaces" -> parse("Namespace", i)
      [] cat = "typedefs" -> parse("Typedef", i)
      [] cat = "consts" -> parse("Const", i)
      [] cat = "enums" -> parse("Enum", i)
      [] cat = "structs" -> parse("Struct", i)
      [] cat = "unions" -> parse("Union", i)
      [] cat = "exceptions" -> parse("Exception", i)
      [] cat = "services" -> parse("Service", i)

\* alt over the ten productions, in the order written; the value names the
\* vector the closure pushes to
RECURSIVE AltTopLevel(_, _)
AltTopLevel(k, i) ==
    IF k > Len(Categories) THEN Err
    ELSE LET r == TopLevel(Categories[k], i) IN
         IF r.ok THEN Ok(r.rest, [cat |-> Categories[k], item |-> r.val])
         ELSE AltTopLevel(k + 1, i)

\* delimited(opt(Separator::parse), alt((...)), opt(Separator::parse))
DocumentItem(i) ==
    LET r == AltTopLevel(1, OptSeparator(i).rest) IN
    IF ~r.ok THEN Err ELSE Ok(OptSeparator(r.rest).rest, r.val)

----------------------------------------------------------------------------
(* lib.rs: the Parser trait.  parse(T, i) is T::parse(i); the associated    *)
(* and free parsing functions are reached through it by their names.        *)

parse(T, i) ==
    CASE T = "Literal" -> LiteralParse(i)
      [] T = "Identifier" -> IdentifierParse(i)
      [] T = "ListSeparator" -> ListSeparatorParse(i)
      [] T = "Comment" -> CommentParse(i)
      [] T = "Separator" -> SeparatorParse(i)
      [] T = "IntConstant" -> IntConstantParse(i)
      [] T = "DoubleConstant" -> DoubleConstantParse(i)
      [] T = "parse2" -> DoubleConstantParse2(i)
      [] T = "ConstValue" -> ConstValueParse(i)
      [] T = "ConstList" -> ConstListParse(i)
      [] T = "ConstMap" -> ConstMapParse(i)
      [] T = "ConstMapPair" -> ConstMapPair(i)
      [] T = "parse_list_separator" -> parse_list_separator(i)
      [] T = "parse_base_type" -> parse_base_type(i)
      [] T = "parse_container_type" -> parse_container_type(i)
      [] T = "parse_identifier_type" -> parse_identifier_type(i)
      [] T = "FieldType" -> FieldTypeParse(i)
      [] T = "MapType" -> MapTypeParse(i)
      [] T = "SetType" -> SetTypeParse(i)
      [] T = "ListType" -> ListTypeParse(i)
      [] T = "KeyValueTypes" -> KeyValueTypes(i)
      [] T = "CppType" -> CppTypeParse(i)
      [] T = "Field" -> FieldParse(i)
      [] T = "Function" -> FunctionParse(i)
      [] T = "Include" -> IncludeParse(i)
      [] T = "CppInclude" -> CppIncludeParse(i)
      [] T = "NamespaceScope" -> NamespaceScopeParse(i)
      [] T = "Namespace" -> NamespaceParse(i)
      [] T = "Const" -> ConstParse(i)
      [] T = "Typedef" -> TypedefParse(i)
      [] T = "EnumValue" -> EnumValueParse(i)
      [] T = "Enum" -> EnumParse(i)
      [] T = "Struct" -> StructParse(i)
      [] T = "Union" -> UnionParse(i)
      [] T = "Exception" -> ExceptionParse(i)
      [] T = "Service" -> ServiceParse(i)
      [] T = "DocumentItem" -> DocumentItem(i)

----------------------------------------------------------------------------
(* The texts the parsers are run on.  A text is rendered from a description *)
(* gen = [kind, parts, seps]: the pieces it is made of and what is written  *)
(* between them.                                                            *)

MaxRawLen == 4      \* longest text enumerated over an alphabet
MaxElems == 3       \* most elements in a generated list / struct body
MaxDocItems == 3    \* most top-level constructs in a generated document
MaxContainers == 3  \* most map / set / list constructors in a generated type

Gen(kind, parts, seps) == [kind |-> kind, parts |-> parts, seps |-> seps]

\* every text over the alphabet A of length at most n
RECURSIVE Strings(_, _)
Strings(A, n) ==
    IF n = 0 THEN {""}
    ELSE LET S == Strings(A, n - 1) IN S \cup {s \o c : s \in S, c \in A}

\* every sequence over the set S of length at most n
RECURSIVE Seqs(_, _)
Seqs(S, n) ==
    IF n = 0 THEN {<<>>}
    ELSE LET T == Seqs(S, n - 1) IN T \cup {Append(t, x) : t \in T, x \in S}

\* parts[1] seps[1] parts[2] seps[2] ... parts[n]
RECURSIVE Join(_, _)
Join(parts, seps) ==
    IF Len(parts) = 0 THEN ""
    ELSE IF Len(parts) = 1 THEN parts[1]
    ELSE parts[1] \o seps[1] \o Join(Tail(parts), Tail(seps))

Range(f) == {f[k] : k \in DOMAIN f}

RECURSIVE Concat(_)
Concat(parts) == IF Len(parts) = 0 THEN "" ELSE Head(parts) \o Concat(Tail(parts))

IdentAlphabet == {"_", "a", "Z", "7", ".", ","}
QuoteAlphabet == {"'", "\"", "\\", "a"}
CommentAlphabet == {"/", "*", "#", "\n", "a"}
SeparatorAlphabet == {" ", ",", ";", "#", "\n"}
RawTexts ==
    Strings(IdentAlphabet, MaxRawLen) \cup Strings(QuoteAlphabet, MaxRawLen)
    \cup Strings(CommentAlphabet, MaxRawLen) \cup Strings(SeparatorAlphabet, MaxRawLen)

\* the texts of the crate's own tests of the lexical parsers
TestTexts ==
    {"'ihciah'balabala", "'ihcia\"h'''''", "\"ihciah\"balabala", "\"ihcia'h\"''''",
     "'ihcia\"aa", "_ihc123iah,", "ihc123iah,", "_123", "_", "123",
     "-+123", "+-123", "+", "-", "10000000000000000000000000000000000000000000000",
     "+123.1.THE.FOLLOWING", "+-123.THE.FOLLOWING", "[1,2,3A]", "{1:34:5}",
     "[ 1,  3 ; 5  6/**/7 , ihciah 1.1]", "[6/**/7 ihciah 1.1   A ]",
     "//ihciah's #content", "//ihciah's #content balabala\nNextLine",
     "#ihciah's ///#content", "/*ihciah's con@#tent*///aaa",
     "/* a /* b */ c */", "/* a /* b", "/* a\nb */\n"}

RawGens == {Gen("raw", <<t>>, <<>>) : t \in RawTexts \cup TestTexts}

\* a document with every top-level production, and each of its prefixes: a
\* document cut off at any position
SampleDocument ==
    "include 'a.thrift'\ncpp_include \"b.h\" # c\nnamespace rust demo\n"
    \o "typedef i32 MyI32\nconst i32 X = 1;\nenum E { A B=2 }\n"
    \o "struct S{1:i32 a; 2:string b='x'}\nunion U { 1: i32 a }\n"
    \o "exception Ex { 1: string m }\n"
    \o "service Sv extends B { void f(1:i32 a) throws (1:Ex e), }\n/* end */\n"

PrefixGens == {Gen("raw", <<Take(SampleDocument, n)>>, <<>>) : n \in 0..Len(SampleDocument)}

\* documents of a few top-level constructs, well-formed and malformed
DocPieces ==
    {"include 'a'", "include 'z'", "cpp_include 'b'", "namespace * n", "typedef i32 T", "const i32 c = 1",
     "enum E {A}", "struct S {}", "union U {}", "exception X {}", "service V {}",
     "struct S {", "typedef", "bogus"}
DocSeps == {" ", "\n//c\n"}

Uniform(n, s) == [k \in 1..n |-> s]
\* the same text s between each two consecutive pieces
Between(ps, s) == Uniform(IF Len(ps) = 0 THEN 0 ELSE Len(ps) - 1, s)

DocGens ==
    {Gen("doc", ps, Uniform(Len(ps), s)) : ps \in Seqs(DocPieces, MaxDocItems), s \in DocSeps}

\* a base-type keyword followed by more identifier characters, and such a
\* name used as the type of a field
TypeSuffixes == {"", "ean", "x", "List", "_t", "7", ".a"}
TypeNameGens == {Gen("type", <<kw, sfx>>, <<"">>) : kw \in Range(BaseTypes), sfx \in TypeSuffixes}
TypedFieldGens ==
    {Gen("field", <<kw \o sfx, "name">>, <<" ">>) : kw \in Range(BaseTypes), sfx \in TypeSuffixes}
TypedFunctionGens ==
    {Gen("function", <<kw \o sfx, "f()">>, <<" ">>) : kw \in Range(BaseTypes), sfx \in TypeSuffixes}

\* typedef X Y
ContainerTexts ==
    {"list<i32>", "set <bool>", "map<string,list<set<i32>>>", "map cpp_type 'm' <i8, MyT>",
     "list<Foo>"}
PlainIdentifiers == {"Foo", "a.B", "_x", "mapper", "listing", "set", "T1"}
TypedefOlds == Range(BaseTypes) \cup ContainerTexts \cup PlainIdentifiers
TypedefGens ==
    {Gen("typedef", <<"typedef", old, alias>>, <<" ", " ">>) :
        old \in TypedefOlds, alias \in {"Alias", "_y"}}

\* struct / union / exception bodies: the same fields, delimited in different ways
FieldTexts == {"1:i32 a", "string b", "2:optional i64 c=18", "required bool d = 'x'"}
ListSepThenSpace == {"; ", ", ", ",\n", " ; "}
SpaceOnly == {" ", "\n", "/**/", " //c\n"}
ListSepOnly == {";", ","}
FieldDelims == ListSepThenSpace \cup SpaceOnly \cup ListSepOnly
FieldsKeywords == {"struct", "union", "exception"}
FieldsGens ==
    {Gen(kw, fs, Between(fs, d)) :
        kw \in FieldsKeywords, fs \in Seqs(FieldTexts, MaxElems), d \in FieldDelims}

\* namespace <scope> <name>
OtherScopes == {"cppx", "javascript", "python", "ruby", "c", "pyx", "py.twist", "swift", "**", "RUST"}
NamespaceNames == {"n", "_a.b", "My7"}
NamespaceGens ==
    {Gen("namespace", <<"namespace", sc, nm>>, <<" ", " ">>) :
        sc \in Range(NamespaceScopes) \cup OtherScopes, nm \in NamespaceNames}

\* integer texts: a sign prefix and a run of digits, around the ends of i64
Signs == {"", "+", "-"}
SignPrefixes == Signs \cup {"+-", "-+", "--", "++"}
Digits == {"0", "1", "2", "3", "4", "5", "6", "7", "8", "9"}
DigitRuns ==
    {"", "0", "7", "000", "123", "0123", "1000000000000000000", "9223372036854775799",
     "92233720368547758070", "18446744073709551616", "009223372036854775807",
     "009223372036854775808", "10000000000000000000000000000000000000000000000"}
    \cup {Take(I64MaxMag, Len(I64MaxMag) - 1) \o d : d \in Digits}
IntGens == {Gen("int", <<sg, ds>>, <<"">>) : sg \in SignPrefixes, ds \in DigitRuns}

\* numeric texts: sign, integer digits, fraction, exponent
Fractions == {"", ".5", ".0", ".25"}
Exponents ==
    {"", "e5", "E5", "e-3", "E+10", "e0400",
     "e9223372036854775807", "e9223372036854775808", "E-9223372036854775809"}
NumGens ==
    {Gen("num", <<sg, int, fr, ex>>, <<"", "", "">>) :
        sg \in Signs, int \in {"", "0", "5", "123"}, fr \in Fractions, ex \in Exponents}

\* lists: the same elements, separated in different ways
ListElems == {"1", "x", "'s'", "1.5"}
OneListSeparator ==
    {",", ";", " ", "\n", "/**/", " //c\n", ", ", " ,", " , ", "\t;\n", "/**/,/**/"}
TwoListSeparators == {",;", ",,", ", ;", " ; , "}
ListGens ==
    {Gen("list", es, Between(es, s)) :
        es \in Seqs(ListElems, MaxElems), s \in OneListSeparator \cup TwoListSeparators \cup {""}}

\* type expressions: trees of map, set and list over base types, written with
\* the same optional whitespace around each '<', ',' and '>'
BaseKeyword(v) == CHOOSE kw \in Range(BaseTypes) : BaseVariant(kw) = v

\* the trees with exactly n container constructors over the base keywords B
RECURSIVE TypeTrees(_, _)
TypeTrees(n, B) ==
    IF n = 0 THEN {[Base |-> BaseVariant(kw)] : kw \in B}
    ELSE {[Set |-> t] : t \in TypeTrees(n - 1, B)}
         \cup {[List |-> t] : t \in TypeTrees(n - 1, B)}
         \cup UNION {{[MapK |-> k, MapV |-> v] :
                        k \in TypeTrees(m, B), v \in TypeTrees(n - 1 - m, B)} : m \in 0..(n - 1)}

RECURSIVE RenderType(_, _)
RenderType(t, w) ==
    CASE DOMAIN t = {"Base"} -> BaseKeyword(t.Base)
      [] DOMAIN t = {"Set"} -> "set" \o w \o "<" \o w \o RenderType(t.Set, w) \o w \o ">"
      [] DOMAIN t = {"List"} -> "list" \o w \o "<" \o w \o RenderType(t.List, w) \o w \o ">"
      [] DOMAIN t = {"MapK", "MapV"} ->
           "map" \o w \o "<" \o w \o RenderType(t.MapK, w) \o w \o "," \o w
           \o RenderType(t.MapV, w) \o w \o ">"

TypeSpaces == {"", " "}
NestedTypeGens ==
    {Gen("nest", <<t>>, <<w>>) :
        t \in UNION {TypeTrees(n, {"i32", "string"}) : n \in 0..MaxContainers}
               \cup TypeTrees(1, Range(BaseTypes)),
        w \in TypeSpaces}

\* fields: id prefix, requiredness, type, name, default, trailing list separator
FieldIds == {"", "3:", "3 : ", "-1:"}
FieldReqs == {"", "required ", "optional "}
FieldTypeTexts == {"string", "Foo", "list<i32>"}
FieldDefaults == {"", "='x'", " = 18", "=[1]"}
FieldTrailers == {"", ";", ",", " ;"}
FieldPartsGens ==
    {Gen("fieldparts", <<id, rq, ty, " ", "name", df, tr>>, <<>>) :
        id \in FieldIds, rq \in FieldReqs, ty \in FieldTypeTexts, df \in FieldDefaults,
        tr \in FieldTrailers}

\* functions: oneway, return type, name, parameters, throws clause, trailing
\* list separator
FunctionOneways == {"", "oneway "}
FunctionReturns == {"void", "string", "Foo", "list<i32>"}
FunctionParams == {"()", "(1:i32 a)", "(1:i32 a, string b)", "(string b; 1:i32 a)"}
FunctionThrows == {"", " throws ()", " throws (1:i32 a)", "throws (string b, 1:i32 a)"}
FunctionTrailers == {"", ";", " ,"}
FunctionPartsGens ==
    {Gen("funcparts", <<ow, rt, " ", "f", ps, th, tr>>, <<>>) :
        ow \in FunctionOneways, rt \in FunctionReturns, ps \in FunctionParams,
        th \in FunctionThrows, tr \in FunctionTrailers}

\* container types with and without a cpp_type annotation: in front of '<'
\* for map and set, behind '>' for list
CppAnnotations == {"", "cpp_type 'x'", "cpp_type \"std::list\"", "cpp_type/**/'x'"}
CppElements == {"i32", "Foo", "set<string>"}
CppSpaces == {"", " "}
CppTypeGens ==
    {g \in {Gen("cpp", <<kw, el, pre, an, post>>, <<>>) :
                kw \in {"map", "set", "list"}, el \in CppElements, an \in CppAnnotations,
                pre \in CppSpaces, post \in CppSpaces} :
        /\ g.parts[4] = "" => (g.parts[3] = "" /\ g.parts[5] = "")
        /\ g.parts[1] = "list" => g.parts[5] = ""}

RenderCpp(kw, el, pre, an, post) ==
    CASE kw = "map" -> "map" \o pre \o an \o post \o "<" \o el \o "," \o el \o ">"
      [] kw = "set" -> "set" \o pre \o an \o post \o "<" \o el \o ">"
      [] kw = "list" -> "list<" \o el \o ">" \o pre \o an

\* bracketed element lists of ConstList, ConstMap and Enum: the elements, one
\* separator text between them and one text between the last element and the
\* closing bracket; seps = <<parser, between, trailing>>
BracketForms == {"ConstList", "ConstMap", "Enum"}
BracketOpen(f) ==
    CASE f = "ConstList" -> "[" [] f = "ConstMap" -> "{" [] f = "Enum" -> "enum E { "
BracketClose(f) == IF f = "ConstList" THEN "]" ELSE "}"
BracketElems(f) ==
    CASE f = "ConstList" -> {"1", "x"}
      [] f = "ConstMap" -> {"1:2", "x : 's'"}
      [] f = "Enum" -> {"A", "B=1"}
BracketBetween == {",", " ", "; "}
BracketTrailing == {"", " ", ",", ";", ", ", " ,", " ; "}
BracketGens ==
    UNION {{Gen("bracket", es, <<f, b, t>>) :
                es \in Seqs(BracketElems(f), MaxElems), b \in BracketBetween, t \in BracketTrailing} :
           f \in BracketForms}

\* service bodies: the functions, each followed by the same delimiter text;
\* seps = <<extends clause, delimiter>>
ServiceFunctions == {"void f()", "i32 g(1: i32 a)", "oneway void h() throws (E e)"}
ServiceExtends == {"", " extends B"}
ServiceBlank == {" ", "\n", "\n//c\n", "/**/", " # c\n\t"}
ServiceListSeparated == {", ", ";\n", " , ", ",/**/", " ;//c\n"}
ServiceGens ==
    {Gen("service", fs, <<e, d>>) :
        fs \in Seqs(ServiceFunctions, MaxElems), e \in ServiceExtends,
        d \in ServiceBlank \cup ServiceListSeparated}
RenderService(fs, e, d) ==
    "service S" \o e \o " { " \o Concat([k \in 1..Len(fs) |-> fs[k] \o d]) \o "}"

\* texts in which an optional part or an alternative starts to match and then
\* fails: parts = <<parser, the text the parser consumes, the text it leaves>>
BacktrackTexts ==
    {<<"FieldType", "list<i32>", " x">>,
     <<"FieldType", "list<i32>", " cpp_type">>,
     <<"FieldType", "list < i32 >", "/**/cpp_type x">>,
     <<"FieldType", "list<list<i32> >", "\n">>,
     <<"FieldType", "map<i32,i32>", " x">>,
     <<"Function", "void f() throws (E e)", " x">>,
     <<"Function", "void f() ", "throws">>,
     <<"Function", "void f() ", "throws(E e)">>,
     <<"Function", "onewayx f()", "">>,
     <<"Field", "i32 a ", "=">>,
     <<"Field", "i32 a ", "= ]">>,
     <<"Field", "requiredx a", "">>,
     <<"Field", "1 : i32 a", ":">>,
     <<"ConstValue", "5", "e">>,
     <<"ConstValue", "5", "e+">>,
     <<"ConstValue", "1.5", "e">>,
     <<"ConstValue", "x", " y">>,
     <<"Literal", "\"a'\"", "'">>}
BacktrackGens == {Gen("backtrack", t, <<>>) : t \in BacktrackTexts}

\* functions whose return type is 'void', an identifier that begins with
\* "void", or another identifier; parts = <<oneway, return type, " ", rest>>
ReturnNames == {"void", "voidResult", "void_t", "void7", "void.a", "voidx", "avoid", "Void", "Result"}
ReturnGens ==
    {Gen("returns", <<ow, rt, " ", fn>>, <<>>) :
        ow \in {"", "oneway "}, rt \in ReturnNames, fn \in {"f()", "f(1: i32 a)"}}

Render(g) ==
    CASE g.kind = "raw" -> g.parts[1]
      [] g.kind = "returns" -> Concat(g.parts)
      [] g.kind = "backtrack" -> g.parts[2] \o g.parts[3]
      [] g.kind = "service" -> RenderService(g.parts, g.seps[1], g.seps[2])
      [] g.kind = "bracket" ->
            BracketOpen(g.seps[1]) \o Join(g.parts, Between(g.parts, g.seps[2]))
                \o g.seps[3] \o BracketClose(g.seps[1])
      [] g.kind = "cpp" -> RenderCpp(g.parts[1], g.parts[2], g.parts[3], g.parts[4], g.parts[5])
      [] g.kind \in {"fieldparts", "funcparts"} -> Concat(g.parts)
      [] g.kind = "nest" -> RenderType(g.parts[1], g.seps[1])
      [] g.kind = "list" -> "[" \o Join(g.parts, g.seps) \o "]"
      [] g.kind \in FieldsKeywords -> g.kind \o " S{" \o Join(g.parts, g.seps) \o "}"
      [] OTHER -> Join(g.parts, g.seps)

Gens ==
    RawGens \cup PrefixGens \cup DocGens \cup TypeNameGens \cup TypedFieldGens
    \cup TypedFunctionGens \cup TypedefGens \cup FieldsGens \cup NamespaceGens \cup IntGens \cup NumGens \cup ListGens
    \cup NestedTypeGens \cup FieldPartsGens \cup FunctionPartsGens
    \cup CppTypeGens \cup BracketGens \cup ServiceGens \cup BacktrackGens \cup ReturnGens

----------------------------------------------------------------------------
(* The state machine: a text is chosen, then one parser is applied to it.  *)
(* Document::parse is followed through the iterations of its many0 loop.   *)

Init ==
    /\ gen \in Gens
    /\ input = Render(gen)
    /\ pc = "start"
    /\ op = ""
    /\ result = Err
    /\ remains = ""
    /\ target = DocumentDefault

Apply(name, r) ==
    /\ pc = "start"
    /\ pc' = "done"
    /\ op' = name
    /\ result' = r
    /\ UNCHANGED <<input, gen, remains, target>>

LiteralCall == Apply("Literal", parse("Literal", input))
IdentifierCall == Apply("Identifier", parse("Identifier", input))
CommentCall == Apply("Comment", parse("Comment", input))
SeparatorCall == Apply("Separator", parse("Separator", input))
ParseListSeparatorCall == Apply("parse_list_separator", parse("parse_list_separator", input))
IntConstantCall == Apply("IntConstant", parse("IntConstant", input))
ConstValueCall == Apply("ConstValue", parse("ConstValue", input))
ConstListCall == Apply("ConstList", parse("ConstList", input))
ConstMapCall == Apply("ConstMap", parse("ConstMap", input))
EnumCall == Apply("Enum", parse("Enum", input))
FieldTypeCall == Apply("FieldType", parse("FieldType", input))
FieldCall == Apply("Field", parse("Field", input))
FunctionCall == Apply("Function", parse("Function", input))
NamespaceCall == Apply("Namespace", parse("Namespace", input))
TypedefCall == Apply("Typedef", parse("Typedef", input))
StructCall == Apply("Struct", parse("Struct", input))
UnionCall == Apply("Union", parse("Union", input))
ServiceCall == Apply("Service", parse("Service", input))
ExceptionCall == Apply("Exception", parse("Exception", input))

\* Document::parse, up to the call of many0
DocumentCall ==
    /\ pc = "start"
    /\ pc' = "many0"
    /\ op' = "Document"
    /\ target' = DocumentDefault
    /\ remains' = input
    /\ UNCHANGED <<input, gen, result>>

\* an iteration that puts the new item in front of its vector
Many0MatchedInFront(r) ==
    /\ r.ok
    /\ target' = [target EXCEPT ![r.val.cat] = <<r.val.item>> \o @]
    /\ pc' = "many0" /\ result' = result /\ remains' = r.rest
    /\ UNCHANGED <<input, gen, op>>

\* one iteration of many0 in which the production matched (r is its result):
\* the closure pushes the item to its vector; many0 returns an error when
\* nothing was consumed, and the ? operator hands that error to the caller
Many0Matched(r) ==
    /\ r.ok
    /\ target' = [target EXCEPT ![r.val.cat] = Append(@, r.val.item)]
    /\ IF Len(r.rest) = Len(remains)
       THEN pc' = "done" /\ result' = Err /\ remains' = remains
       ELSE pc' = "many0" /\ result' = result /\ remains' = r.rest
    /\ UNCHANGED <<input, gen, op>>

DocumentIterate == pc = "many0" /\ Many0Matched(parse("DocumentItem", remains))

\* a many0 that demands the whole input: an error when text is left over
Many0FailedHard(r) ==
    /\ ~r.ok
    /\ pc' = "done"
    /\ result' = IF remains = "" THEN Ok(remains, target) ELSE Err
    /\ UNCHANGED <<input, gen, op, remains, target>>

\* a return that hands back the whole input instead of what many0 left
Many0FailedRewind(r) ==
    /\ ~r.ok
    /\ pc' = "done"
    /\ result' = Ok(input, target)
    /\ UNCHANGED <<input, gen, op, remains, target>>

\* the iteration of many0 in which no production matched: many0 returns what
\* is left and Document::parse returns Ok((remains, target))
Many0Failed(r) ==
    /\ ~r.ok
    /\ pc' = "done"
    /\ result' = Ok(remains, target)
    /\ UNCHANGED <<input, gen, op, remains, target>>

DocumentReturn == pc = "many0" /\ Many0Failed(parse("DocumentItem", remains))

Next ==
    \/ LiteralCall
    \/ IdentifierCall
    \/ CommentCall
    \/ SeparatorCall
    \/ ParseListSeparatorCall
    \/ IntConstantCall
    \/ ConstValueCall
    \/ ConstListCall
    \/ ConstMapCall
    \/ EnumCall
    \/ FieldTypeCall
    \/ FieldCall
    \/ FunctionCall
    \/ NamespaceCall
    \/ TypedefCall
    \/ StructCall
    \/ UnionCall
    \/ ExceptionCall
    \/ ServiceCall
    \/ DocumentCall
    \/ DocumentIterate
    \/ DocumentReturn

Spec == Init /\ [][Next]_vars

----------------------------------------------------------------------------
(* Properties *)

IsSuffix(t, i) == Len(t) <= Len(i) /\ From(i, Len(i) - Len(t) + 1) = t
Done(name) == pc = "done" /\ op = name

\* C1: Document::parse never returns an error.  Whatever the text, it
\* returns Ok with the Document and a remainder; the remainder is the part of
\* the input that many0 had not consumed when no top-level production
\* matched, and no production matches it.
C1_DocumentNeverFails ==
    /\ Done("Document") =>
          /\ result.ok
          /\ result.rest = remains
          /\ IsSuffix(result.rest, input)
          /\ result.val = target
          /\ ~parse("DocumentItem", result.rest).ok
    /\ (pc = "many0" /\ parse("DocumentItem", remains).ok) =>
          Len(parse("DocumentItem", remains).rest) < Len(remains)

\* a malformed construct after a well-formed one: the soft stop
C1_Witness ==
    /\ Done("Document")
    /\ result.ok
    /\ Len(result.val.includes) = 1
    /\ result.rest = "struct S {"

----------------------------------------------------------------------------
(* C2 *)

\* the type a name denotes: the primitive for an exact keyword, else a
\* reference to the named type
NamedType(name) ==
    IF name \in Range(BaseTypes) THEN [Base |-> BaseVariant(name)] ELSE [Identifier |-> name]

\* C2: keyword/identifier disambiguation.  FieldType::parse of the exact text
\* of a base-type keyword is the primitive; of an identifier that only begins
\* with a keyword ("boolean", "i32x", "stringList") it is
\* FieldType::Identifier of the whole identifier with an empty remainder; a
\* Field and a Function with such a name as their type parse successfully.
C2_KeywordPrefixedIdentifier ==
    /\ (Done("FieldType") /\ gen.kind = "type") =>
          /\ result.ok
          /\ result.rest = ""
          /\ result.val = NamedType(input)
    /\ (Done("Field") /\ gen.kind = "field") =>
          /\ result.ok
          /\ result.val.type_ = NamedType(gen.parts[1])
          /\ result.val.name = gen.parts[2]
    /\ (Done("Function") /\ gen.kind = "function") =>
          /\ result.ok
          /\ result.val.returns = Some(NamedType(gen.parts[1]))
          /\ result.val.name = "f"

----------------------------------------------------------------------------
(* C3 *)

\* C3: Typedef::parse takes only a base type or a map/set/list container as
\* the aliased type.  "typedef X Y" with X a plain identifier fails, and no
\* Typedef has FieldType::Identifier as its old type.
C3_TypedefRejectsIdentifier ==
    (Done("Typedef") /\ gen.kind = "typedef") =>
        /\ gen.parts[2] \in PlainIdentifiers => ~result.ok
        /\ result.ok => DOMAIN result.val.old # {"Identifier"}

----------------------------------------------------------------------------
(* C4 *)

\* the Field each of the field texts denotes
FieldOf(t) ==
    CASE t = "1:i32 a" ->
           [id |-> Some(I64(FALSE, "1")), required |-> None, type_ |-> [Base |-> "I32"],
            name |-> "a", default |-> None]
      [] t = "string b" ->
           [id |-> None, required |-> None, type_ |-> [Base |-> "String"],
            name |-> "b", default |-> None]
      [] t = "2:optional i64 c=18" ->
           [id |-> Some(I64(FALSE, "2")), required |-> Some(FALSE), type_ |-> [Base |-> "I64"],
            name |-> "c", default |-> Some([Int |-> I64(FALSE, "18")])]
      [] t = "required bool d = 'x'" ->
           [id |-> None, required |-> Some(TRUE), type_ |-> [Base |-> "Bool"],
            name |-> "d", default |-> Some([Literal |-> "x"])]

FieldsOf(ts) == [k \in 1..Len(ts) |-> FieldOf(ts[k])]

FieldsParser(kw) ==
    CASE kw = "struct" -> "Struct" [] kw = "union" -> "Union" [] kw = "exception" -> "Exception"

\* C4: Struct, Union and Exception are insensitive to how consecutive fields
\* are delimited.  For the same fields, a body that delimits them by a list
\* separator followed by whitespace, by whitespace or comments only, or by a
\* list separator without whitespace parses, and the AST is the same: the
\* fields in declared order.
C4_FieldDelimiterInsensitive ==
    (pc = "done" /\ gen.kind \in FieldsKeywords /\ op = FieldsParser(gen.kind)) =>
        /\ result.ok
        /\ result.rest = ""
        /\ result.val = [name |-> "S", fields |-> FieldsOf(gen.parts)]

----------------------------------------------------------------------------
(* C5 *)

\* C5: Namespace::parse takes exactly the closed set of scopes.  For each of
\* the eighteen scopes s and every identifier n, "namespace s n" is
\* Namespace{scope: s, name: n} with the scope text in full; with a scope
\* token outside the set the parse fails.
C5_NamespaceClosedScopeSet ==
    (Done("Namespace") /\ gen.kind = "namespace") =>
        IF gen.parts[2] \in Range(NamespaceScopes)
        THEN /\ result.ok
             /\ result.rest = ""
             /\ result.val = [scope |-> gen.parts[2], name |-> gen.parts[3]]
        ELSE ~result.ok

----------------------------------------------------------------------------
(* C6 *)

\* the magnitude a digit run denotes, as decimal digits without leading zeros
Magnitude(ds) == IF StripLeadingZeros(ds) = "" THEN "0" ELSE StripLeadingZeros(ds)

\* C6: IntConstant::parse turns an optionally signed run of digits into an
\* i64 and fails, instead of wrapping, truncating or clamping, when the run
\* denotes a value outside [-2^63, 2^63 - 1].  9223372036854775807 and
\* -9223372036854775808 parse to exactly these values; 9223372036854775808 and
\* -9223372036854775809 fail; a lone sign and a doubled sign fail.
C6_IntConstantChecked ==
    /\ (Done("IntConstant") /\ gen.kind = "int") =>
          LET sign == gen.parts[1]
              digits == gen.parts[2]
              inRange == IF sign = "-"
                         THEN ~MagGreater(Magnitude(digits), "9223372036854775808")
                         ELSE ~MagGreater(Magnitude(digits), "9223372036854775807")
          IN  /\ result.ok <=> (sign \in Signs /\ digits # "" /\ inRange)
              /\ result.ok =>
                    /\ result.rest = ""
                    /\ result.val.mag = Magnitude(digits)
                    /\ result.val.neg = (sign = "-" /\ Magnitude(digits) # "0")
    /\ Done("IntConstant") =>
          /\ input = "9223372036854775807" =>
                result = Ok("", [neg |-> FALSE, mag |-> "9223372036854775807"])
          /\ input = "-9223372036854775808" =>
                result = Ok("", [neg |-> TRUE, mag |-> "9223372036854775808"])
          /\ input \in {"9223372036854775808", "-9223372036854775809", "+", "-",
                        "+-123", "-+123", "--1", "++1",
                        "10000000000000000000000000000000000000000000000"} => ~result.ok

\* the most negative i64 is parsed; one beyond it has been refused
C6_Witness ==
    /\ Done("IntConstant")
    /\ input = "-9223372036854775808"
    /\ result.ok
    /\ result.val = [neg |-> TRUE, mag |-> "9223372036854775808"]
    /\ ~parse("IntConstant", "-9223372036854775809").ok

----------------------------------------------------------------------------
(* C7 *)

\* C7: Int/double disambiguation in ConstValue::parse.  Numeric text without
\* '.', 'e' and 'E' is refused by the strict double parser and is
\* ConstValue::Int; numeric text with a fraction or an exponent is
\* ConstValue::Double and the whole literal is consumed; ConstValue is never
\* the Int of the integer prefix of a double literal.
C7_IntDoubleDisambiguation ==
    (Done("ConstValue") /\ gen.kind = "num") =>
        LET int == gen.parts[2]
            frac == gen.parts[3]
            exp == gen.parts[4]
        IN  /\ (int # "" /\ frac = "" /\ exp = "") =>
                  /\ ~parse("parse2", input).ok
                  /\ result.ok
                  /\ result.rest = ""
                  /\ DOMAIN result.val = {"Int"}
            /\ ((int # "" \/ frac # "") /\ (frac # "" \/ exp # "")) =>
                  /\ result.ok
                  /\ result.rest = ""
                  /\ DOMAIN result.val = {"Double"}

----------------------------------------------------------------------------
(* C8 *)

\* the ConstValue each of the element texts denotes
ElementOf(t) ==
    CASE t = "1" -> [Int |-> I64(FALSE, "1")]
      [] t = "x" -> [Identifier |-> "x"]
      [] t = "'s'" -> [Literal |-> "s"]
      [] t = "1.5" -> [Double |-> [neg |-> FALSE, digits |-> "15", exp10 |-> 1, inf |-> FALSE]]

ElementsOf(ts) == [k \in 1..Len(ts) |-> ElementOf(ts[k])]

SeparatedBy(S) == \A k \in DOMAIN gen.seps : gen.seps[k] \in S

----------------------------------------------------------------------------
(* C9 *)

IsIdentifierChar(c) == is_ascii_alphanumeric(c) \/ c = "." \/ c = "_"

----------------------------------------------------------------------------
(* C10 *)

Occurs(c, s) == \E k \in 1..Len(s) : At(s, k) = c

\* C10: Literal::parse returns the raw text strictly between the opening
\* quote and the first later occurrence of the same quote character, without
\* escape processing.  The content never holds the delimiting quote but may
\* hold the other one; the remainder starts right after the closing quote; the
\* parse fails when the opening quote is not matched before the end of input.
C10_LiteralRawText ==
    Done("Literal") =>
        LET q == IF input = "" THEN "" ELSE At(input, 1)
            closed == q \in {"\"", "'"} /\ Occurs(q, Drop(input, 1))
        IN  /\ result.ok <=> closed
            /\ result.ok =>
                  /\ input = q \o result.val \o q \o result.rest
                  /\ ~Occurs(q, result.val)

\* a single-quoted text that holds a double quote and is followed by quotes
C10_Witness ==
    /\ Done("Literal")
    /\ input = "'ihcia\"h'''''"
    /\ result = Ok("''''", "ihcia\"h")

----------------------------------------------------------------------------
(* C11, C12 *)

WellFormedPieces ==
    {"include 'a'", "include 'z'", "cpp_include 'b'", "namespace * n", "typedef i32 T",
     "const i32 c = 1", "enum E {A}", "struct S {}", "union U {}", "exception X {}",
     "service V {}"}

\* the category a well-formed piece belongs to, and the construct it denotes
CategoryOf(p) ==
    CASE p \in {"include 'a'", "include 'z'"} -> "includes"
      [] p = "cpp_include 'b'" -> "cpp_includes"
      [] p = "namespace * n" -> "namespaces"
      [] p = "typedef i32 T" -> "typedefs"
      [] p = "const i32 c = 1" -> "consts"
      [] p = "enum E {A}" -> "enums"
      [] p = "struct S {}" -> "structs"
      [] p = "union U {}" -> "unions"
      [] p = "exception X {}" -> "exceptions"
      [] p = "service V {}" -> "services"

ConstructOf(p) ==
    CASE p = "include 'a'" -> "a"
      [] p = "include 'z'" -> "z"
      [] p = "cpp_include 'b'" -> "b"
      [] p = "namespace * n" -> [scope |-> "*", name |-> "n"]
      [] p = "typedef i32 T" -> [old |-> [Base |-> "I32"], alias |-> "T"]
      [] p = "const i32 c = 1" ->
           [name |-> "c", type_ |-> [Base |-> "I32"], value |-> [Int |-> I64(FALSE, "1")]]
      [] p = "enum E {A}" -> [name |-> "E", children |-> <<[name |-> "A", value |-> None]>>]
      [] p = "struct S {}" -> [name |-> "S", fields |-> <<>>]
      [] p = "union U {}" -> [name |-> "U", fields |-> <<>>]
      [] p = "exception X {}" -> [name |-> "X", fields |-> <<>>]
      [] p = "service V {}" -> [name |-> "V", extension |-> None, functions |-> <<>>]

\* the constructs of category cat among the pieces ps, in the order written
RECURSIVE OfCategory(_, _)
OfCategory(cat, ps) ==
    IF Len(ps) = 0 THEN <<>>
    ELSE IF CategoryOf(Head(ps)) = cat
         THEN <<ConstructOf(Head(ps))>> \o OfCategory(cat, Tail(ps))
         ELSE OfCategory(cat, Tail(ps))

DocumentOf(ps) == [cat \in Range(Categories) |-> OfCategory(cat, ps)]

\* the number of well-formed pieces in front of the first malformed one
RECURSIVE GoodPrefix(_)
GoodPrefix(ps) ==
    IF Len(ps) = 0 \/ Head(ps) \notin WellFormedPieces THEN 0 ELSE 1 + GoodPrefix(Tail(ps))

\* A lone "typedef" is malformed as the last piece of a document; in front of
\* other text it may be read as a typedef of that text, and the pieces of the
\* document are then not the ones it was put together from.
PiecesAsWritten(ps) ==
    LET k == GoodPrefix(ps) + 1 IN (k <= Len(ps) /\ ps[k] = "typedef") => k = Len(ps)

\* C11: after Document::parse each of the ten category lists is the
\* subsequence of the parsed top-level constructs of its kind, in the order
\* they were met: a construct is appended once, to its own list only, no list
\* is reordered, and the Document holds nothing but the ten lists.  Each
\* iteration of the loop appends one construct to one list.
C11_CategoryLists ==
    /\ (Done("Document") /\ gen.kind = "doc" /\ GoodPrefix(gen.parts) = Len(gen.parts)) =>
          /\ result.ok
          /\ DOMAIN result.val = Range(Categories)
          /\ \A cat \in Range(Categories) : result.val[cat] = OfCategory(cat, gen.parts)
    /\ (pc = "many0" /\ gen.kind = "doc" /\ PiecesAsWritten(gen.parts)) =>
          \E n \in 0..GoodPrefix(gen.parts) : target = DocumentOf(SubSeq(gen.parts, 1, n))

\* two includes around a struct: the includes keep their order
C11_Witness ==
    /\ Done("Document")
    /\ gen.kind = "doc"
    /\ gen.parts = <<"include 'z'", "struct S {}", "include 'a'">>
    /\ result.val.includes = <<"z", "a">>
    /\ result.val.structs = <<[name |-> "S", fields |-> <<>>]>>

----------------------------------------------------------------------------
(* C13 *)

\* C13: FieldType::parse handles container nesting of any depth.  A type
\* expression built from the nine base types with map<K,V>, set<T> and
\* list<T>, with optional whitespace around '<', ',' and '>', parses to the
\* Map/Set/List tree of the same structure and is consumed whole:
\* "map<string,list<set<i32>>>" is Map(String, List(Set(I32))).
C13_ContainerNesting ==
    /\ (Done("FieldType") /\ gen.kind = "nest") =>
          /\ result.ok
          /\ result.rest = ""
          /\ result.val = gen.parts[1]
    /\ (Done("FieldType") /\ input = "map<string,list<set<i32>>>") =>
          result = Ok("", [MapK |-> [Base |-> "String"],
                           MapV |-> [List |-> [Set |-> [Base |-> "I32"]]]])

\* three levels of nesting, with whitespace around the punctuation
C13_Witness ==
    /\ Done("FieldType")
    /\ input = "map < string , list < set < i32 > > >"
    /\ result.ok
    /\ result.val.MapV.List.Set = [Base |-> "I32"]

----------------------------------------------------------------------------
(* C14, C15 *)

\* what the texts of the parts of a field and of a function denote
TypeOf(t) ==
    CASE t = "string" -> [Base |-> "String"]
      [] t = "Foo" -> [Identifier |-> "Foo"]
      [] t = "list<i32>" -> [List |-> [Base |-> "I32"]]

FieldIdOf(t) ==
    CASE t = "" -> None
      [] t \in {"3:", "3 : "} -> Some([neg |-> FALSE, mag |-> "3"])
      [] t = "-1:" -> Some([neg |-> TRUE, mag |-> "1"])

FieldReqOf(t) ==
    CASE t = "" -> None [] t = "required " -> Some(TRUE) [] t = "optional " -> Some(FALSE)

FieldDefaultOf(t) ==
    CASE t = "" -> None
      [] t = "='x'" -> Some([Literal |-> "x"])
      [] t = " = 18" -> Some([Int |-> [neg |-> FALSE, mag |-> "18"]])
      [] t = "=[1]" -> Some([List |-> <<[Int |-> [neg |-> FALSE, mag |-> "1"]]>>])

\* C14: in Field::parse the id prefix and the requiredness keyword are
\* optional independently of each other.  All four combinations parse; id is
\* Some(n) exactly when "<int> :" is written; required is Some(true) for
\* 'required', Some(false) for 'optional', None without a keyword; default is
\* Some(v) exactly when "= <ConstValue>" follows the name; a trailing list
\* separator is consumed and dropped.
C14_FieldParts ==
    (Done("Field") /\ gen.kind = "fieldparts") =>
        /\ result.ok
        /\ result.rest = ""
        /\ result.val = [id |-> FieldIdOf(gen.parts[1]),
                         required |-> FieldReqOf(gen.parts[2]),
                         type_ |-> TypeOf(gen.parts[3]),
                         name |-> gen.parts[5],
                         default |-> FieldDefaultOf(gen.parts[6])]

\* an id without a requiredness keyword, a default and a trailing separator
C14_Witness ==
    /\ Done("Field")
    /\ input = "3 : Foo name = 18 ;"
    /\ result.ok
    /\ result.rest = ""
    /\ result.val.id = Some([neg |-> FALSE, mag |-> "3"])
    /\ result.val.required = None
    /\ result.val.default = Some([Int |-> [neg |-> FALSE, mag |-> "18"]])

FieldA == [id |-> Some([neg |-> FALSE, mag |-> "1"]), required |-> None,
           type_ |-> [Base |-> "I32"], name |-> "a", default |-> None]
FieldB == [id |-> None, required |-> None,
           type_ |-> [Base |-> "String"], name |-> "b", default |-> None]

ParamsOf(t) ==
    CASE t = "()" -> <<>>
      [] t = "(1:i32 a)" -> <<FieldA>>
      [] t = "(1:i32 a, string b)" -> <<FieldA, FieldB>>
      [] t = "(string b; 1:i32 a)" -> <<FieldB, FieldA>>

ThrowsOf(t) ==
    CASE t = "" -> None
      [] t = " throws ()" -> Some(<<>>)
      [] t = " throws (1:i32 a)" -> Some(<<FieldA>>)
      [] t = "throws (string b, 1:i32 a)" -> Some(<<FieldB, FieldA>>)

----------------------------------------------------------------------------
(* C16 *)

ElementTypeOf(t) ==
    CASE t = "i32" -> [Base |-> "I32"]
      [] t = "Foo" -> [Identifier |-> "Foo"]
      [] t = "set<string>" -> [Set |-> [Base |-> "String"]]

ContainerOf(kw, el) ==
    CASE kw = "map" -> [MapK |-> ElementTypeOf(el), MapV |-> ElementTypeOf(el)]
      [] kw = "set" -> [Set |-> ElementTypeOf(el)]
      [] kw = "list" -> [List |-> ElementTypeOf(el)]

\* C16: a cpp_type annotation is consumed and dropped.  A map or set written
\* with "cpp_type <Literal>" between the keyword and '<', and a list written
\* with "cpp_type <Literal>" after '>', parse to the FieldType of the same
\* type written without the annotation, and nothing of the annotation is
\* left in the remainder.
C16_CppTypeDropped ==
    (Done("FieldType") /\ gen.kind = "cpp") =>
        /\ result.ok
        /\ result.rest = ""
        /\ result.val = ContainerOf(gen.parts[1], gen.parts[2])

\* an annotated list: the annotation after '>' is consumed
C16_Witness ==
    /\ Done("FieldType")
    /\ input = "list<Foo> cpp_type \"std::list\""
    /\ result = Ok("", [List |-> [Identifier |-> "Foo"]])

----------------------------------------------------------------------------
(* C17 *)

StartsWith(t, s) == Len(s) >= Len(t) /\ SubSeq(s, 1, Len(t)) = t
OccursText(t, s) == \E k \in 1..(Len(s) - Len(t) + 1) : SubSeq(s, k, k + Len(t) - 1) = t

\* a line comment opened by the text open: the content runs up to the next
\* newline or the end of input, and the newline stays in the remainder
LineComment(open) ==
    /\ result.ok
    /\ input = open \o result.val \o result.rest
    /\ ~OccursText("\n", result.val)
    /\ result.rest = "" \/ StartsWith("\n", result.rest)

\* C17: Comment::parse knows three forms.  '//' and '#' comments run up to,
\* not including, the next newline or the end of input, and leave the newline
\* unconsumed.  '/* */' comments end at the first "*/", without nesting: in
\* "/* a /* b */ c */" the content is " a /* b " and " c */" is the remainder;
\* a "/*" without a later "*/" fails.  Any other text is not a comment.
C17_CommentForms ==
    Done("Comment") =>
        /\ IF StartsWith("//", input) THEN LineComment("//")
           ELSE IF StartsWith("#", input) THEN LineComment("#")
           ELSE IF StartsWith("/*", input)
           THEN /\ result.ok <=> OccursText("*/", Drop(input, 2))
                /\ result.ok =>
                      /\ input = "/*" \o result.val \o "*/" \o result.rest
                      /\ ~OccursText("*/", result.val)
           ELSE ~result.ok
        /\ input = "/* a /* b */ c */" => result = Ok(" c */", " a /* b ")
        /\ input = "/* a /* b" => ~result.ok

\* the block comment that holds a second opener and is followed by a closer
C17_Witness ==
    /\ Done("Comment")
    /\ input = "/* a /* b */ c */"
    /\ result = Ok(" c */", " a /* b ")

----------------------------------------------------------------------------
(* C18 *)

\* the value of one element text of a bracketed list
BracketElementOf(t) ==
    CASE t = "1" -> [Int |-> I64(FALSE, "1")]
      [] t = "x" -> [Identifier |-> "x"]
      [] t = "1:2" -> <<[Int |-> I64(FALSE, "1")], [Int |-> I64(FALSE, "2")]>>
      [] t = "x : 's'" -> <<[Identifier |-> "x"], [Literal |-> "s"]>>
      [] t = "A" -> [name |-> "A", value |-> None]
      [] t = "B=1" -> [name |-> "B", value |-> Some(I64(FALSE, "1"))]

BracketElementsOf(ts) == [k \in 1..Len(ts) |-> BracketElementOf(ts[k])]

\* the elements a parse result holds
BracketChildren == IF op = "Enum" THEN result.val.children ELSE result.val

HasListSeparator(t) == OccursText(",", t) \/ OccursText(";", t)

\* C18: ConstList, ConstMap and Enum accept '(Element ListSeparator?)*' in
\* full: with a list separator after the last element and before the closing
\* ']' or '}' the text is accepted and yields the elements written.
C18_TrailingListSeparator ==
    (/\ gen.kind = "bracket"
     /\ Done(gen.seps[1])
     /\ Len(gen.parts) >= 1
     /\ HasListSeparator(gen.seps[3])) =>
        /\ result.ok
        /\ result.rest = ""
        /\ BracketChildren = BracketElementsOf(gen.parts)

\* the same lists without a list separator before the closing bracket are
\* accepted with the elements written
C18_NoTrailingListSeparator ==
    (/\ gen.kind = "bracket"
     /\ Done(gen.seps[1])
     /\ ~HasListSeparator(gen.seps[3])) =>
        /\ result.ok
        /\ result.rest = ""
        /\ BracketChildren = BracketElementsOf(gen.parts)

\* a list separator before the closing bracket makes each of the three fail
C18_TrailingRejected ==
    (/\ gen.kind = "bracket"
     /\ Done(gen.seps[1])
     /\ HasListSeparator(gen.seps[3])) => ~result.ok

----------------------------------------------------------------------------
(* C19 *)

\* the value of one function text of a service body
ServiceFunctionOf(t) ==
    CASE t = "void f()" ->
            [name |-> "f", oneway |-> FALSE, returns |-> None, parameters |-> <<>>,
             exceptions |-> None]
      [] t = "i32 g(1: i32 a)" ->
            [name |-> "g", oneway |-> FALSE, returns |-> Some([Base |-> "I32"]),
             parameters |-> <<[id |-> Some(I64(FALSE, "1")), required |-> None,
                               type_ |-> [Base |-> "I32"], name |-> "a", default |-> None]>>,
             exceptions |-> None]
      [] t = "oneway void h() throws (E e)" ->
            [name |-> "h", oneway |-> TRUE, returns |-> None, parameters |-> <<>>,
             exceptions |-> Some(<<[id |-> None, required |-> None,
                                    type_ |-> [Identifier |-> "E"], name |-> "e",
                                    default |-> None]>>)]

\* the service written by the generated text
ServiceOf(g) ==
    [name |-> "S",
     extension |-> IF g.seps[1] = "" THEN None ELSE Some("B"),
     functions |-> [k \in 1..Len(g.parts) |-> ServiceFunctionOf(g.parts[k])]]

\* C19: Service::parse treats functions as self-delimiting: a body whose
\* functions are followed only by whitespace, newlines or comments (no comma
\* or semicolon) parses to the function list, name and extension written, as
\* the same body with a list separator after each function does.
C19_SelfDelimiting ==
    (Done("Service") /\ gen.kind = "service" /\ gen.seps[2] \in ServiceBlank) =>
        /\ result.ok
        /\ result.rest = ""
        /\ result.val = ServiceOf(gen)
        /\ result = parse("Service", RenderService(gen.parts, gen.seps[1], ", "))

\* with a list separator and whitespace or a comment after each function the
\* body parses to the service written
C19_ListSeparated ==
    (Done("Service") /\ gen.kind = "service" /\ gen.seps[2] \in ServiceListSeparated) =>
        /\ result.ok
        /\ result.rest = ""
        /\ result.val = ServiceOf(gen)

\* a function without a throws clause, followed only by whitespace or
\* comments and then by another function, makes the service fail
C19_BlankAfterParameters ==
    (/\ Done("Service") /\ gen.kind = "service" /\ gen.seps[2] \in ServiceBlank) =>
        (result.ok <=>
            \A k \in 1..(Len(gen.parts) - 1) : gen.parts[k] = "oneway void h() throws (E e)")

----------------------------------------------------------------------------
(* C20 *)

\* the parsers whose value is the text they consumed
Recognizers == {"Identifier"}

----------------------------------------------------------------------------
(* C21 *)

\* the number of characters the finished parse consumed
Consumed == Len(input) - Len(result.rest)

\* the parser P, applied at position k of the input, does not succeed on an
\* empty match
NoEmptyMatchAt(P, k) ==
    LET i == From(input, k)
        r == parse(P, i)
    IN  r.ok => Len(r.rest) < Len(i)

\* the element lists that separated_list0 built for the finished parse
ListsBuilt ==
    CASE op \in {"ConstList", "ConstMap"} -> <<result.val>>
      [] op = "Enum" -> <<result.val.children>>
      [] op \in {"Struct", "Union", "Exception"} -> <<result.val.fields>>
      [] op = "Service" -> <<result.val.functions>>
      [] op = "Function" ->
            IF IsSome(result.val.exceptions)
            THEN <<result.val.parameters, result.val.exceptions.some>>
            ELSE <<result.val.parameters>>
      [] OTHER -> <<>>

\* Separator and parse_list_separator consume at least one character when
\* they succeed, at the start of the input and at every position inside it
SeparatorsConsume ==
    /\ (pc = "done" /\ op \in {"Separator", "parse_list_separator"} /\ result.ok) =>
          Consumed >= 1
    /\ (pc = "done" /\ op \in {"Separator", "parse_list_separator"}) =>
          \A k \in 1..(Len(input) + 1) : NoEmptyMatchAt(op, k)

\* every element of a list and every separator between two elements took at
\* least one character of what the parse consumed
ListsConsume ==
    (pc = "done" /\ result.ok /\ op # "Document") =>
        \A n \in DOMAIN ListsBuilt :
            Len(ListsBuilt[n]) >= 1 => 2 * Len(ListsBuilt[n]) - 1 <= Consumed

\* an iteration of the Document loop leaves less text than it found, and the
\* loop is never ended by the error many0 gives for an item that consumed
\* nothing
DocumentLoopConsumes ==
    /\ (pc = "many0" /\ pc' = "many0") => Len(remains') < Len(remains)
    /\ (pc = "many0" /\ pc' = "done") => result'.ok

\* the number of constructs the Document loop has pushed
RECURSIVE Pushed(_)
Pushed(k) == IF k = 0 THEN 0 ELSE Len(target[Categories[k]]) + Pushed(k - 1)

\* the Document loop has run at most as many iterations as it has consumed
\* characters, so it returns within Len(input) iterations
DocumentLoopBounded ==
    (op = "Document" /\ pc \in {"many0", "done"}) =>
        /\ IsSuffix(remains, input)
        /\ Pushed(Len(Categories)) <= Len(input) - Len(remains)

\* C21: every repetition of the grammar makes progress, so parsing
\* terminates.  Each successful iteration of the Document loop consumes at
\* least one character, so the loop runs at most Len(input) times; so does
\* each iteration of a separated_list0 (a separator and an element); and
\* Separator and parse_list_separator never succeed on an empty match.
C21_Progress ==
    /\ [](SeparatorsConsume /\ ListsConsume /\ DocumentLoopBounded)
    /\ [][DocumentLoopConsumes]_vars

\* the Document loop after its first iteration, with an item still to read
C21_Witness ==
    /\ pc = "many0"
    /\ input = "include 'a' include 'z'"
    /\ remains = "include 'z'"
    /\ Len(target.includes) = 1

----------------------------------------------------------------------------
(* C22 *)

\* C22: in Function::parse the return type is None only when the return-type
\* token is exactly the keyword 'void'; a function whose return type is an
\* identifier that begins with "void" (e.g. "voidResult f()") parses with
\* returns = Some(FieldType::Identifier) of the whole identifier.
C22_VoidExactKeyword ==
    (Done("Function") /\ gen.kind = "returns") =>
        /\ result.ok
        /\ result.rest = ""
        /\ result.val.oneway = (gen.parts[1] # "")
        /\ result.val.returns =
              IF gen.parts[2] = "void" THEN None ELSE Some([Identifier |-> gen.parts[2]])

\* the return types that are 'void' or do not begin with "void" parse as C22
\* says
C22_OtherReturnTypes ==
    (Done("Function") /\ gen.kind = "returns"
        /\ (gen.parts[2] = "void" \/ ~StartsWith("void", gen.parts[2]))) =>
        /\ result.ok
        /\ result.rest = ""
        /\ result.val.returns =
              IF gen.parts[2] = "void" THEN None ELSE Some([Identifier |-> gen.parts[2]])

\* a return type that begins with "void" and goes on makes the function fail
C22_VoidPrefixRejected ==
    (Done("Function") /\ gen.kind = "returns"
        /\ StartsWith("void", gen.parts[2]) /\ gen.parts[2] # "void") => ~result.ok
====
